---- MODULE Spec2Model ----
(***************************************************************************)
(* Tile cache and download coordinator of QMapControl:                     *)
(* ImageManager (ImageManager.cpp) on top of QCache, an optional           *)
(* QNetworkDiskCache, an optional ITileProvider and NetworkManager         *)
(* (NetworkManager.h; its implementation file is not part of the sources,  *)
(* so its operations follow the specification text).                       *)
(***************************************************************************)
EXTENDS Integers, Sequences, FiniteSets, TLC

\* ------------------------------------------------------------------ bounds
\* Largest capacity (MiB) that setMemoryCacheCapacity is called with.
MaxCapacityMiB == 1
\* Ages of an outstanding request are counted up to this many ticks.
MaxAge == 1

\* --------------------------------------------------------------- constants
kDefaultTileSizePx == 256
kDefaultPixmapCacheSizeMiB == 30
\* Number of ticks after which the timeout sweep treats a request as stale.
kTimeoutTicks == 1

\* Tile URLs of the full model and of the cache-order model.
URLs == {"A", "B"}
LruURLs == {"A", "B", "C"}

Policies == {"AlwaysCache", "PreferCache", "AlwaysNetwork"}

\* ------------------------------------------------------------------ images
\* A QPixmap: its tag tells the placeholders from tile images.
Pixmap(tag, w, h, depth) == [tag |-> tag, w |-> w, h |-> h, depth |-> depth]
NullPixmap == Pixmap("null", 0, 0, 0)
isNull(pixmap) == pixmap.w = 0 \/ pixmap.h = 0

\* setupPlaceholderPixmaps: two tile-sized pixmaps.
m_pixmapLoading == Pixmap("loading", kDefaultTileSizePx, kDefaultTileSizePx, 32)
m_pixmapEmpty == Pixmap("empty", kDefaultTileSizePx, kDefaultTileSizePx, 32)

\* Tile images the environment delivers: 400 KiB and 2 MiB.
P400 == Pixmap("tile", 320, 320, 32)
P2M == Pixmap("tile", 1024, 512, 32)
TilePixmaps == {P400, P2M}

\* Raw bytes: an encoded image, undecodable bytes, or no bytes at all.
Encoded(pixmap) == [fmt |-> "img", img |-> pixmap]
JunkBytes == [fmt |-> "junk", img |-> NullPixmap]
EmptyBytes == [fmt |-> "empty", img |-> NullPixmap]
ByteSize(bytes) == IF bytes.fmt = "empty" THEN 0 ELSE 1

\* QPixmap::fromImageReader: the image, or a null pixmap when decoding fails.
fromImageReader(bytes) == IF bytes.fmt = "img" THEN bytes.img ELSE NullPixmap

\* What ITileProvider::getTileData can answer.
ProviderReplies ==
    {[found |-> FALSE, data |-> EmptyBytes], [found |-> TRUE, data |-> JunkBytes]}
    \cup {[found |-> TRUE, data |-> Encoded(p)] : p \in TilePixmaps}
NoProviderCall == [found |-> FALSE, data |-> EmptyBytes]

\* What QNetworkDiskCache::data can answer: no entry (nullptr) or a device.
DiskReplies ==
    {[entry |-> FALSE, data |-> EmptyBytes], [entry |-> TRUE, data |-> JunkBytes]}
    \cup {[entry |-> TRUE, data |-> Encoded(p)] : p \in TilePixmaps}
NoDiskEntry == [entry |-> FALSE, data |-> EmptyBytes]

\* ------------------------------------------------------------------ QCache
\* m_memoryCache: maximum cost and the entries, most recently used first.
RECURSIVE SumCost(_)
SumCost(list) == IF list = <<>> THEN 0 ELSE Head(list).cost + SumCost(Tail(list))

QCacheTotal(cache) == SumCost(cache.list)

QCacheIndex(cache, key) ==
    IF \E i \in 1..Len(cache.list) : cache.list[i].key = key
    THEN CHOOSE i \in 1..Len(cache.list) : cache.list[i].key = key
    ELSE 0

QCacheContains(cache, key) == QCacheIndex(cache, key) # 0

\* QCache::trim(m): unlink from the tail while the total cost exceeds m.
RECURSIVE TrimList(_, _)
TrimList(list, m) ==
    IF list # <<>> /\ SumCost(list) > m
    THEN TrimList(SubSeq(list, 1, Len(list) - 1), m)
    ELSE list

QCacheTrim(cache, m) == [cache EXCEPT !.list = TrimList(cache.list, m)]

QCacheRemove(cache, key) ==
    [cache EXCEPT !.list = SelectSeq(cache.list, LAMBDA e : e.key # key)]

\* QCache::insert(key, object, cost), Qt 5: the old entry of the key goes
\* first, an object costing more than the maximum is deleted, otherwise the
\* cache is trimmed to make room and the entry is linked at the front.
QCacheInsert(cache, key, obj, cost) ==
    LET removed == QCacheRemove(cache, key) IN
    IF cost > cache.mx
    THEN removed
    ELSE LET trimmed == QCacheTrim(removed, cache.mx - cost) IN
         [trimmed EXCEPT !.list = <<[key |-> key, obj |-> obj, cost |-> cost]>> \o trimmed.list]

\* QCache::object(key): the object, relinked at the front, or nullptr.
QCacheObject(cache, key) ==
    LET i == QCacheIndex(cache, key) IN
    IF i = 0
    THEN [found |-> FALSE, obj |-> NullPixmap, cache |-> cache]
    ELSE [found |-> TRUE, obj |-> cache.list[i].obj,
          cache |-> [cache EXCEPT !.list =
                        <<cache.list[i]>> \o SubSeq(cache.list, 1, i - 1)
                                          \o SubSeq(cache.list, i + 1, Len(cache.list))]]

\* QCache::setMaxCost(m): new maximum, then trim to it.
QCacheSetMaxCost(cache, m) == QCacheTrim([cache EXCEPT !.mx = m], m)

\* ------------------------------------------------------------ ImageManager
\* hashTileUrl: md5 of url + projection + tile size; the inputs stand for it.
hashTileUrl(url) == <<url, "epsg", kDefaultTileSizePx>>

\* The cost insertTileToMemoryCache computes for a pixmap.
PixmapCost(pixmap) == (pixmap.w * pixmap.h * pixmap.depth) \div 8

MiB == 1024 * 1024

\* Faulty variant of insertTileToMemoryCache: the cost is left to QCache's default, 1.
insertTileToMemoryCache_DefaultCost(cache, url, pixmap) ==
    IF ~isNull(pixmap)
    THEN QCacheInsert(cache, hashTileUrl(url), pixmap, 1)
    ELSE cache

\* Faulty variant of insertTileToMemoryCache: a null pixmap is inserted too.
insertTileToMemoryCache_NoNullCheck(cache, url, pixmap) ==
    QCacheInsert(cache, hashTileUrl(url), pixmap, PixmapCost(pixmap))
insertTileToMemoryCache(cache, url, pixmap) ==
    IF ~isNull(pixmap)
    THEN QCacheInsert(cache, hashTileUrl(url), pixmap, PixmapCost(pixmap))
    ELSE cache

\* Faulty variant of findTileInMemoryCache: the lookup leaves the order of use alone.
findTileInMemoryCache_NoRelink(cache, url) ==
    [QCacheObject(cache, hashTileUrl(url)) EXCEPT !.cache = cache]

\* findTileInMemoryCache: [found, obj, cache]; the lookup relinks the entry.
findTileInMemoryCache(cache, url) == QCacheObject(cache, hashTileUrl(url))

\* Faulty variant of getImageFromDevice: the decoded image is not inserted.
getImageFromDevice_NoInsert(cache, prefetch, url, bytes) ==
    [ret |-> fromImageReader(bytes), cache |-> cache, prefetch |-> prefetch \ {url}]

\* getImageFromDevice: decode, insert, drop the url from the prefetch set.
getImageFromDevice(cache, prefetch, url, bytes) ==
    LET pixmap == fromImageReader(bytes) IN
    [ret |-> pixmap,
     cache |-> insertTileToMemoryCache(cache, url, pixmap),
     prefetch |-> prefetch \ {url}]

\* What a call of getImageInternal does: the pixmap returned, the memory cache
\* and the prefetch set afterwards, the downloadImage signals emitted, and the
\* numbers of provider calls and persistent-cache reads made.
Outcome(ret, cache, prefetch, dl, prov, disk) ==
    [ret |-> ret, cache |-> cache, prefetch |-> prefetch, dl |-> dl,
     prov |-> prov, disk |-> disk]

DownloadSignal(url, cacheOnly) == [url |-> url, cacheOnly |-> cacheOnly]

\* Faulty variant of getImageInternalNoProvider: the policy AlwaysCache does not
\* end the miss path, and a download is asked for.
getImageInternalNoProvider_Online(cache, prefetch, policy, diskCache, url, diskReply) ==
    IF policy \in {"AlwaysCache", "PreferCache"} /\ diskCache /\ diskReply.entry
    THEN LET r == getImageFromDevice(cache, prefetch, url, diskReply.data) IN
         Outcome(r.ret, r.cache, r.prefetch, <<>>, 0, 1)
    ELSE Outcome(m_pixmapLoading, cache, prefetch, <<DownloadSignal(url, FALSE)>>, 0,
                 IF policy \in {"AlwaysCache", "PreferCache"} /\ diskCache THEN 1 ELSE 0)

\* Faulty variant of getImageInternalNoProvider: the persistent cache is read
\* first under every policy.
getImageInternalNoProvider_DiskFirst(cache, prefetch, policy, diskCache, url, diskReply) ==
    IF diskCache /\ diskReply.entry
    THEN LET r == getImageFromDevice(cache, prefetch, url, diskReply.data) IN
         Outcome(r.ret, r.cache, r.prefetch, <<>>, 0, 1)
    ELSE LET reads == IF diskCache THEN 1 ELSE 0 IN
         IF policy = "AlwaysCache"
         THEN Outcome(m_pixmapEmpty, cache, prefetch, <<>>, 0, reads)
         ELSE Outcome(m_pixmapLoading, cache, prefetch,
                      <<DownloadSignal(url, FALSE)>>, 0, reads)
\* getImageInternal(url) below the provider block: under AlwaysCache and
\* PreferCache the persistent cache is read (diskReply is its answer) and a hit
\* decoded; AlwaysCache then ends with the empty pixmap; otherwise a download
\* is asked for and the loading pixmap returned.
getImageInternalNoProvider(cache, prefetch, policy, diskCache, url, diskReply) ==
    IF policy \in {"AlwaysCache", "PreferCache"} /\ diskCache /\ diskReply.entry
    THEN LET r == getImageFromDevice(cache, prefetch, url, diskReply.data) IN
         Outcome(r.ret, r.cache, r.prefetch, <<>>, 0, 1)
    ELSE LET reads == IF policy \in {"AlwaysCache", "PreferCache"} /\ diskCache
                      THEN 1 ELSE 0 IN
         IF policy = "AlwaysCache"
         THEN Outcome(m_pixmapEmpty, cache, prefetch, <<>>, 0, reads)
         ELSE Outcome(m_pixmapLoading, cache, prefetch,
                      <<DownloadSignal(url, FALSE)>>, 0, reads)

\* Faulty variant of getImageInternal: a provider that has no data for the url does
\* not end the miss path.
getImageInternal_Fallback(cache, prefetch, provider, policy, diskCache, url, provReply, diskReply) ==
    IF provider /\ provReply.found
    THEN LET r == getImageFromDevice(cache, prefetch, url, provReply.data) IN
         Outcome(r.ret, r.cache, r.prefetch, <<>>, 1, 0)
    ELSE LET o == getImageInternalNoProvider(cache, prefetch, policy, diskCache, url,
                                             diskReply) IN
         [o EXCEPT !.prov = IF provider THEN 1 ELSE 0]

\* getImageInternal(url) with the provider bound or not, the policy, the
\* persistent cache configured or not, and the answers provReply and diskReply
\* that the provider and the persistent cache give when they are asked.
getImageInternal(cache, prefetch, provider, policy, diskCache, url, provReply, diskReply) ==
    IF provider
    THEN IF provReply.found
         THEN LET r == getImageFromDevice(cache, prefetch, url, provReply.data) IN
              Outcome(r.ret, r.cache, r.prefetch, <<>>, 1, 0)
         ELSE Outcome(m_pixmapEmpty, cache, prefetch, <<>>, 1, 0)
    ELSE getImageInternalNoProvider(cache, prefetch, policy, diskCache, url, diskReply)

\* rawImageFromDiskCache: [data, prov, disk].
rawImageFromDiskCache(provider, diskCache, provReply, diskReply) ==
    IF provider
    THEN [data |-> provReply.data, prov |-> 1, disk |-> 0]
    ELSE IF diskCache
         THEN [data |-> IF diskReply.entry THEN diskReply.data ELSE EmptyBytes,
               prov |-> 0, disk |-> 1]
         ELSE [data |-> EmptyBytes, prov |-> 0, disk |-> 0]

\* ---------------------------------------------------------- NetworkManager
\* An entry of m_downloadRequests: a reply of the transport for url, in the
\* order the operations were started. askers and sawAbort are history: the
\* operations that asked for the url while the reply was outstanding, and
\* whether an abortLoading call has run since and left the reply outstanding.
Request(url, cacheOnly) ==
    [url |-> url, cacheOnly |-> cacheOnly, age |-> 0, askers |-> {}, sawAbort |-> FALSE]

RequestsFor(requests, url) == {i \in 1..Len(requests) : requests[i].url = url}

isDownloading(requests, url) == RequestsFor(requests, url) # {}

downloadQueueSize(requests) == Len(requests)

\* Faulty variant of downloadImage: a transport operation is started every time.
downloadImage_NoDedup(requests, url, cacheOnly) ==
    Append(requests, Request(url, cacheOnly))

\* downloadImage(url, cacheOnly): a new transport operation unless one is
\* outstanding for the url.
downloadImage(requests, url, cacheOnly) ==
    IF isDownloading(requests, url)
    THEN requests
    ELSE Append(requests, Request(url, cacheOnly))

\* abortDownloads: every outstanding operation is cancelled, the table cleared.
abortDownloads(requests) == <<>>

\* abortTimeoutedRequests: the requests older than the staleness bound are
\* cancelled and reported as failed, the others stay.
IsTimeouted(r) == r.age >= kTimeoutTicks

\* Faulty variant of abortTimeoutedRequests: the stale requests are dropped silently.
abortTimeoutedRequests_Silent(requests) ==
    [requests |-> SelectSeq(requests, LAMBDA r : ~IsTimeouted(r)), sigs |-> <<>>]

abortTimeoutedRequests(requests) ==
    LET stale == SelectSeq(requests, IsTimeouted) IN
    [requests |-> SelectSeq(requests, LAMBDA r : ~IsTimeouted(r)),
     sigs |-> [i \in 1..Len(stale) |->
                  [name |-> "imageDownloadFailed", url |-> stale[i].url]]]

RemoveAt(seq, i) == SubSeq(seq, 1, i - 1) \o SubSeq(seq, i + 1, Len(seq))

\* --------------------------------------------------------------- the state
VARIABLES
    m_cachePolicy,       \* ImageManager::m_cachePolicy
    m_tileProvider,      \* a tile provider is bound
    m_diskCache,         \* a persistent cache is configured (m_diskCache != nullptr)
    nmCache,             \* the cache the network manager was last given is m_diskCache
    m_memoryCache,       \* ImageManager::m_memoryCache
    m_prefetchUrls,      \* ImageManager::m_prefetchUrls
    m_downloadRequests,  \* NetworkManager::m_downloadRequests
    last,                \* what the last operation was given, did and returned
    lru,                 \* history: the cached urls, most recently used first
    history,             \* which history is recorded: "none", "askers" or "lru"
    locks,               \* who holds m_tileProviderLock, m_tileCacheLock, the download mutex
    threads              \* where each calling thread is in the operation it runs

vars == <<m_cachePolicy, m_tileProvider, m_diskCache, nmCache, m_memoryCache,
          m_prefetchUrls, m_downloadRequests, last, lru, history, locks, threads>>

VoidPixmap == Pixmap("void", 0, 0, 0)

\* The threads that call the image manager at the same time.
Threads == {1, 2}

\* The locks, each free: m_tileProviderLock and the network manager's mutex
\* name the thread that holds them (0: none); m_tileCacheLock its readers and
\* its writer.
NoLocks == [provider |-> 0, table |-> 0, readers |-> {}, writer |-> 0]

\* A thread: the operation it runs and on which url, the statement it is at,
\* the argument of the operation (the provider to bind, or whether the
\* download it asks for is cache-only), the bytes it holds.
IdleThread == [pc |-> "idle", op |-> "", url |-> "", arg |-> FALSE, data |-> EmptyBytes]
NoRequest == Request("", FALSE)

\* The record of an operation op(url), as it starts: ret (a pixmap) and
\* result (a bool) are what it returns; cached: the memory cache held the url
\* when the operation began; provReply and diskReply: what the provider and
\* the persistent cache answered in prov calls and disk reads; dl: the
\* downloadImage signals emitted; sigs: the notifications emitted; queue and
\* outstanding: the download queue size and whether the url was being
\* downloaded when the operation began; req and outcome: the reply a
\* completion is about; cancelled: the replies the operation aborted, whose
\* finished events (QNetworkReply::abort emits finished) came with it.
Did(op, url) ==
    [op |-> op, url |-> url, ret |-> VoidPixmap, result |-> FALSE,
     cached |-> QCacheContains(m_memoryCache, hashTileUrl(url)),
     provReply |-> NoProviderCall, diskReply |-> NoDiskEntry, prov |-> 0, disk |-> 0,
     dl |-> <<>>, sigs |-> <<>>,
     queue |-> downloadQueueSize(m_downloadRequests),
     outstanding |-> isDownloading(m_downloadRequests, url),
     req |-> NoRequest, outcome |-> "none", cancelled |-> 0]

Signal(name, url) == [name |-> name, url |-> url]

\* ImageManager::ImageManager: policy AlwaysCache, no persistent cache, no
\* provider, the default memory cache capacity, nothing outstanding.
InitState ==
    /\ m_cachePolicy = "AlwaysCache"
    /\ m_tileProvider = FALSE
    /\ m_diskCache = FALSE
    /\ nmCache = FALSE
    /\ m_memoryCache = [mx |-> kDefaultPixmapCacheSizeMiB * MiB, list |-> <<>>]
    /\ m_prefetchUrls = {}
    /\ m_downloadRequests = <<>>
    /\ last = [op |-> "init", url |-> "", ret |-> VoidPixmap, result |-> FALSE,
               cached |-> FALSE, provReply |-> NoProviderCall,
               diskReply |-> NoDiskEntry, prov |-> 0, disk |-> 0, dl |-> <<>>,
               sigs |-> <<>>, queue |-> 0, outstanding |-> FALSE, req |-> NoRequest,
               outcome |-> "none", cancelled |-> 0]
    /\ lru = [gi |-> <<>>, all |-> <<>>, out |-> {}]
    /\ locks = NoLocks
    /\ threads = [t \in Threads |-> IdleThread]

Init == InitState /\ history = "none"
InitHistory == InitState /\ history = "askers"
InitLru == InitState /\ history = "lru"

\* The answers the environment can give in the current state (no operation
\* reads the persistent cache while a provider is bound).
ProviderAnswers == IF m_tileProvider THEN ProviderReplies ELSE {NoProviderCall}
DiskAnswers ==
    IF m_diskCache /\ ~m_tileProvider THEN DiskReplies ELSE {NoDiskEntry}

\* History: asker asked for url; every outstanding reply for url records it.
NoteAsker(requests, url, asker) ==
    IF history = "askers"
    THEN [i \in 1..Len(requests) |->
            IF requests[i].url = url
            THEN [requests[i] EXCEPT !.askers = @ \cup {asker}]
            ELSE requests[i]]
    ELSE requests

\* The downloadImage slot run for each signal of dl, in order (the signal is
\* connected directly to NetworkManager::downloadImage).
RECURSIVE Deliver(_, _, _)
Deliver(requests, dl, asker) ==
    IF dl = <<>> THEN requests
    ELSE Deliver(NoteAsker(downloadImage(requests, Head(dl).url, Head(dl).cacheOnly),
                           Head(dl).url, asker),
                 Tail(dl), asker)

\* History: an abortLoading call has run; the replies it left outstanding.
NoteAbort(requests) ==
    [i \in 1..Len(requests) |-> [requests[i] EXCEPT !.sawAbort = TRUE]]

\* History: the order of use. LruUse: url was inserted or looked up just now;
\* LruKeep: the urls the cache no longer holds leave the order.
LruKeep(order, cache) ==
    SelectSeq(order, LAMBDA x : QCacheContains(cache, hashTileUrl(x)))

LruUse(order, url, cache) ==
    LruKeep(<<url>> \o SelectSeq(order, LAMBDA x : x # url), cache)

\* lru after an operation on url that left the memory cache as cache: gi counts
\* insertions and the reads of getImage as uses, all counts every lookup too;
\* out is the urls that the operation made leave the cache.
Recorded(giUse, allUse, url, cache) ==
    IF history = "lru"
    THEN [gi |-> IF giUse THEN LruUse(lru.gi, url, cache) ELSE LruKeep(lru.gi, cache),
          all |-> IF allUse THEN LruUse(lru.all, url, cache) ELSE LruKeep(lru.all, cache),
          out |-> {lru.all[i] : i \in 1..Len(lru.all)}
                     \ {x \in LruURLs : QCacheContains(cache, hashTileUrl(x))}]
    ELSE lru

UnchangedConfig ==
    UNCHANGED <<m_cachePolicy, m_tileProvider, m_diskCache, nmCache, history,
                locks, threads>>

\* ------------------------------------------------- ImageManager operations
\* Faulty variant of getImage: the memory cache is not looked at first.
getImage_NoFastPath(cache, prefetch, provider, policy, diskCache, url, provReply, diskReply) ==
    getImageInternal(cache, prefetch, provider, policy, diskCache, url,
                     provReply, diskReply)

\* getImage(url): a memory-cache hit, or getImageInternal.
getImage(cache, prefetch, provider, policy, diskCache, url, provReply, diskReply) ==
    LET f == findTileInMemoryCache(cache, url) IN
    IF f.found
    THEN Outcome(f.obj, f.cache, prefetch, <<>>, 0, 0)
    ELSE getImageInternal(f.cache, prefetch, provider, policy, diskCache, url,
                          provReply, diskReply)

\* prefetchImage(url): unless the memory cache holds the url, the url joins
\* the prefetch set and getImageInternal runs.
prefetchImage(cache, prefetch, provider, policy, diskCache, url, provReply, diskReply) ==
    LET f == findTileInMemoryCache(cache, url) IN
    IF f.found
    THEN Outcome(VoidPixmap, f.cache, prefetch, <<>>, 0, 0)
    ELSE [getImageInternal(f.cache, prefetch \cup {url}, provider, policy, diskCache,
                           url, provReply, diskReply) EXCEPT !.ret = VoidPixmap]

\* Faulty variant of cacheImageToDisk: the payload found is not taken as success.
cacheImageToDisk_IgnorePayload(provider, policy, diskCache, url, provReply, diskReply) ==
    LET raw == IF policy \in {"AlwaysCache", "PreferCache"}
               THEN rawImageFromDiskCache(provider, diskCache, provReply, diskReply)
               ELSE [data |-> EmptyBytes, prov |-> 0, disk |-> 0] IN
    IF policy = "AlwaysCache"
    THEN [result |-> TRUE, dl |-> <<>>, sigs |-> <<>>,
          prov |-> raw.prov, disk |-> raw.disk]
    ELSE [result |-> FALSE, dl |-> <<DownloadSignal(url, TRUE)>>, sigs |-> <<>>,
          prov |-> raw.prov, disk |-> raw.disk]

\* cacheImageToDisk(url): [result, dl, sigs, prov, disk].
cacheImageToDisk(provider, policy, diskCache, url, provReply, diskReply) ==
    LET raw == IF policy \in {"AlwaysCache", "PreferCache"}
               THEN rawImageFromDiskCache(provider, diskCache, provReply, diskReply)
               ELSE [data |-> EmptyBytes, prov |-> 0, disk |-> 0] IN
    IF policy \in {"AlwaysCache", "PreferCache"} /\ ByteSize(raw.data) > 0
    THEN [result |-> TRUE, dl |-> <<>>, sigs |-> <<Signal("imageCached", "")>>,
          prov |-> raw.prov, disk |-> raw.disk]
    ELSE IF policy = "AlwaysCache"
         THEN [result |-> TRUE, dl |-> <<>>, sigs |-> <<>>,
               prov |-> raw.prov, disk |-> raw.disk]
         ELSE [result |-> FALSE, dl |-> <<DownloadSignal(url, TRUE)>>, sigs |-> <<>>,
               prov |-> raw.prov, disk |-> raw.disk]

\* Faulty variant of abortLoading: the network manager's downloads are not aborted.
abortLoading_NoAbort(requests, prefetch) ==
    [requests |-> requests, prefetch |-> {}]

\* abortLoading: the downloads are aborted and the prefetch set cleared.
abortLoading(requests, prefetch) ==
    [requests |-> abortDownloads(requests), prefetch |-> {}]

\* handleImageDownloaded(url, pixmap): [cache, prefetch, sigs].
handleImageDownloaded(cache, prefetch, url, pixmap) ==
    [cache |-> insertTileToMemoryCache(cache, url, pixmap),
     prefetch |-> prefetch \ {url},
     sigs |-> IF url \in prefetch THEN <<>> ELSE <<Signal("imageUpdated", url)>>]

\* The answer recorded: the one given if the question was asked.
Asked(n, reply, none) == IF n > 0 THEN reply ELSE none

\* ----------------------------------------------------------------- actions
GetImage(u) ==
    \E provReply \in ProviderAnswers, diskReply \in DiskAnswers :
        LET o == getImage(m_memoryCache, m_prefetchUrls, m_tileProvider, m_cachePolicy,
                          m_diskCache, u, provReply, diskReply) IN
        /\ m_memoryCache' = o.cache
        /\ m_prefetchUrls' = o.prefetch
        /\ m_downloadRequests' = Deliver(m_downloadRequests, o.dl, "getImage")
        /\ last' = [Did("getImage", u) EXCEPT
                        !.ret = o.ret, !.prov = o.prov, !.disk = o.disk,
                        !.provReply = Asked(o.prov, provReply, NoProviderCall),
                        !.diskReply = Asked(o.disk, diskReply, NoDiskEntry),
                        !.dl = o.dl]
        /\ lru' = Recorded(TRUE, TRUE, u, o.cache)
        /\ UnchangedConfig

PrefetchImage(u) ==
    \E provReply \in ProviderAnswers, diskReply \in DiskAnswers :
        LET o == prefetchImage(m_memoryCache, m_prefetchUrls, m_tileProvider,
                               m_cachePolicy, m_diskCache, u, provReply, diskReply) IN
        /\ m_memoryCache' = o.cache
        /\ m_prefetchUrls' = o.prefetch
        /\ m_downloadRequests' = Deliver(m_downloadRequests, o.dl, "prefetchImage")
        /\ last' = [Did("prefetchImage", u) EXCEPT
                        !.prov = o.prov, !.disk = o.disk,
                        !.provReply = Asked(o.prov, provReply, NoProviderCall),
                        !.diskReply = Asked(o.disk, diskReply, NoDiskEntry),
                        !.dl = o.dl]
        /\ lru' = Recorded(~QCacheContains(m_memoryCache, hashTileUrl(u)), TRUE, u, o.cache)
        /\ UnchangedConfig

CacheImageToDisk(u) ==
    \E provReply \in ProviderAnswers, diskReply \in DiskAnswers :
        LET o == cacheImageToDisk(m_tileProvider, m_cachePolicy, m_diskCache, u,
                                  provReply, diskReply) IN
        /\ m_downloadRequests' = Deliver(m_downloadRequests, o.dl, "cacheImageToDisk")
        /\ last' = [Did("cacheImageToDisk", u) EXCEPT
                        !.result = o.result, !.prov = o.prov, !.disk = o.disk,
                        !.provReply = Asked(o.prov, provReply, NoProviderCall),
                        !.diskReply = Asked(o.disk, diskReply, NoDiskEntry),
                        !.dl = o.dl, !.sigs = o.sigs]
        /\ UnchangedConfig
        /\ UNCHANGED <<m_memoryCache, m_prefetchUrls, lru>>

AbortLoading ==
    LET a == abortLoading(m_downloadRequests, m_prefetchUrls) IN
    /\ m_downloadRequests' = NoteAbort(a.requests)
    /\ m_prefetchUrls' = a.prefetch
    /\ last' = [Did("abortLoading", "") EXCEPT
                    !.cancelled = Len(m_downloadRequests) - Len(a.requests)]
    /\ UnchangedConfig
    /\ UNCHANGED <<m_memoryCache, lru>>

\* Faulty variant of setCachePolicy: entering AlwaysCache aborts nothing.
setCachePolicy_NoAbort(requests, prefetch, diskCache, policy) ==
    [requests |-> requests, prefetch |-> prefetch,
     nmCache |-> IF policy = "AlwaysNetwork" THEN FALSE ELSE diskCache,
     aborted |-> FALSE]
\* setCachePolicy(policy): [requests, prefetch, nmCache, aborted].
setCachePolicy(requests, prefetch, diskCache, policy) ==
    LET a == IF policy = "AlwaysCache"
             THEN abortLoading(requests, prefetch)
             ELSE [requests |-> requests, prefetch |-> prefetch] IN
    [requests |-> a.requests, prefetch |-> a.prefetch,
     nmCache |-> IF policy = "AlwaysNetwork" THEN FALSE ELSE diskCache,
     aborted |-> policy = "AlwaysCache"]

SetCachePolicy(policy) ==
    LET s == setCachePolicy(m_downloadRequests, m_prefetchUrls, m_diskCache, policy) IN
    /\ m_cachePolicy' = policy
    /\ m_downloadRequests' = IF s.aborted THEN NoteAbort(s.requests) ELSE s.requests
    /\ m_prefetchUrls' = s.prefetch
    /\ nmCache' = s.nmCache
    /\ last' = [Did("setCachePolicy", "") EXCEPT
                    !.cancelled = Len(m_downloadRequests) - Len(s.requests)]
    /\ UNCHANGED <<m_tileProvider, m_diskCache, m_memoryCache, lru, history,
                   locks, threads>>

SetCustomTileProvider(provider) ==
    LET a == abortLoading(m_downloadRequests, m_prefetchUrls) IN
    /\ m_tileProvider' = provider
    /\ m_downloadRequests' = NoteAbort(a.requests)
    /\ m_prefetchUrls' = a.prefetch
    /\ last' = [Did("setCustomTileProvider", "") EXCEPT
                    !.cancelled = Len(m_downloadRequests) - Len(a.requests)]
    /\ UNCHANGED <<m_cachePolicy, m_diskCache, nmCache, m_memoryCache, lru, history,
                   locks, threads>>

\* configureDiskCache(dir, capacityMiB): success is whether the directory
\* could be made; the network manager's cache is not touched.
ConfigureDiskCache(success) ==
    /\ m_diskCache' = (m_diskCache \/ success)
    /\ last' = [Did("configureDiskCache", "") EXCEPT !.result = success]
    /\ UNCHANGED <<m_cachePolicy, m_tileProvider, nmCache, m_memoryCache,
                   m_prefetchUrls, m_downloadRequests, lru, history, locks, threads>>

setMemoryCacheCapacity(cache, capacityMiB) == QCacheSetMaxCost(cache, capacityMiB * MiB)

SetMemoryCacheCapacity(capacityMiB) ==
    /\ m_memoryCache' = setMemoryCacheCapacity(m_memoryCache, capacityMiB)
    /\ last' = Did("setMemoryCacheCapacity", "")
    /\ lru' = Recorded(FALSE, FALSE, "", m_memoryCache')
    /\ UnchangedConfig
    /\ UNCHANGED <<m_prefetchUrls, m_downloadRequests>>

\* ------------------------------------------------------ transport events
\* The reply i finishes without error. A display request delivers pixmap
\* (null when the bytes do not decode) through imageDownloaded to
\* handleImageDownloaded, a cache-only request imageCached to handleImageCached.
DownloadSucceeded(i, pixmap) ==
    LET r == m_downloadRequests[i]
        h == IF r.cacheOnly
             THEN [cache |-> m_memoryCache, prefetch |-> m_prefetchUrls,
                   sigs |-> <<Signal("imageCached", "")>>]
             ELSE handleImageDownloaded(m_memoryCache, m_prefetchUrls, r.url, pixmap) IN
    /\ r.cacheOnly => pixmap = NullPixmap
    /\ m_downloadRequests' = RemoveAt(m_downloadRequests, i)
    /\ m_memoryCache' = h.cache
    /\ m_prefetchUrls' = h.prefetch
    /\ last' = [Did("downloadFinished", r.url) EXCEPT
                    !.req = r, !.outcome = "ok", !.sigs = h.sigs, !.ret = pixmap]
    /\ lru' = Recorded(~r.cacheOnly /\ ~isNull(pixmap), ~r.cacheOnly /\ ~isNull(pixmap),
                       r.url, h.cache)
    /\ UnchangedConfig

\* Faulty variant of imageDownloadFailed: the network manager's signal is not
\* connected to the image manager's.
imageDownloadFailed_NotConnected(url) == <<>>

\* NetworkManager::imageDownloadFailed is connected to
\* ImageManager::imageDownloadFailed: the signal is passed on as it is.
imageDownloadFailed(url) == <<Signal("imageDownloadFailed", url)>>

\* The reply i finishes with a network error: imageDownloadFailed is relayed.
DownloadFailed(i) ==
    LET r == m_downloadRequests[i] IN
    /\ m_downloadRequests' = RemoveAt(m_downloadRequests, i)
    /\ last' = [Did("downloadFinished", r.url) EXCEPT
                    !.req = r, !.outcome = "error",
                    !.sigs = imageDownloadFailed(r.url)]
    /\ UnchangedConfig
    /\ UNCHANGED <<m_memoryCache, m_prefetchUrls, lru>>

\* Time passes: every outstanding request grows one tick older.
Tick ==
    /\ \E i \in 1..Len(m_downloadRequests) : m_downloadRequests[i].age < MaxAge
    /\ m_downloadRequests' =
         [i \in 1..Len(m_downloadRequests) |->
            [m_downloadRequests[i] EXCEPT !.age = IF @ < MaxAge THEN @ + 1 ELSE @]]
    /\ last' = Did("tick", "")
    /\ UnchangedConfig
    /\ UNCHANGED <<m_memoryCache, m_prefetchUrls, lru>>

\* m_timeoutTimer fires: the timeout sweep.
AbortTimeoutedRequests ==
    LET t == abortTimeoutedRequests(m_downloadRequests) IN
    /\ m_downloadRequests' = t.requests
    /\ last' = [Did("abortTimeoutedRequests", "") EXCEPT !.sigs = t.sigs]
    /\ UnchangedConfig
    /\ UNCHANGED <<m_memoryCache, m_prefetchUrls, lru>>

\* handleImageDownloaded(url, pixmap) with a slot connected directly to
\* imageUpdated that calls getImage(url): the slot runs where the signal is
\* emitted, before handleImageDownloaded goes on to insertTileToMemoryCache.
\* [cache, prefetch, sigs, slot], slot being what the slot's getImage did.
handleImageDownloadedWithSlot(cache, prefetch, provider, policy, diskCache, url, pixmap, provReply, diskReply) ==
    IF url \in prefetch
    THEN [cache |-> insertTileToMemoryCache(cache, url, pixmap),
          prefetch |-> prefetch \ {url},
          sigs |-> <<>>,
          slot |-> Outcome(VoidPixmap, cache, prefetch, <<>>, 0, 0)]
    ELSE LET slot == getImage(cache, prefetch, provider, policy, diskCache, url,
                              provReply, diskReply) IN
         [cache |-> insertTileToMemoryCache(slot.cache, url, pixmap),
          prefetch |-> slot.prefetch,
          sigs |-> <<Signal("imageUpdated", url)>>,
          slot |-> slot]

\* The display reply i finishes without error and imageUpdated is emitted to
\* a slot that calls getImage for the url; last records that getImage call.
ImageUpdatedSlot(i, pixmap) ==
    \E provReply \in ProviderAnswers, diskReply \in DiskAnswers :
        LET r == m_downloadRequests[i]
            h == handleImageDownloadedWithSlot(m_memoryCache, m_prefetchUrls,
                     m_tileProvider, m_cachePolicy, m_diskCache, r.url, pixmap,
                     provReply, diskReply) IN
        /\ ~r.cacheOnly
        /\ r.url \notin m_prefetchUrls
        /\ m_downloadRequests' =
              Deliver(RemoveAt(m_downloadRequests, i), h.slot.dl, "getImage")
        /\ m_memoryCache' = h.cache
        /\ m_prefetchUrls' = h.prefetch
        /\ last' = [Did("imageUpdated", r.url) EXCEPT
                        !.req = r, !.outcome = "ok", !.sigs = h.sigs,
                        !.ret = h.slot.ret, !.prov = h.slot.prov, !.disk = h.slot.disk,
                        !.provReply = Asked(h.slot.prov, provReply, NoProviderCall),
                        !.diskReply = Asked(h.slot.disk, diskReply, NoDiskEntry),
                        !.dl = h.slot.dl]
        /\ lru' = Recorded(TRUE, TRUE, r.url, h.cache)
        /\ UnchangedConfig
\* ------------------------------------------------- threads and their locks
\* The operations statement by statement, as run by several threads: a step
\* that takes a lock waits until the lock is free; the statements in between
\* are the ones of the operations above.
At(t, pc) == threads[t].pc = pc

Goto(t, pc) == [threads EXCEPT ![t].pc = pc]

Return(t) == [threads EXCEPT ![t] = IdleThread]

\* A thread calls getImage, prefetchImage or cacheImageToDisk. cacheImageToDisk
\* asks rawImageFromDiskCache under AlwaysCache and PreferCache and goes
\* straight to the download otherwise.
StartTileOp(t, op, u) ==
    /\ At(t, "idle")
    /\ threads' = [threads EXCEPT ![t] =
          [IdleThread EXCEPT !.op = op, !.url = u, !.arg = (op = "cacheImageToDisk"),
              !.pc = IF op = "cacheImageToDisk"
                     THEN IF m_cachePolicy \in {"AlwaysCache", "PreferCache"}
                          THEN "provider_lock" ELSE "download_lock"
                     ELSE "find_lock"]]
    /\ UNCHANGED <<m_cachePolicy, m_tileProvider, m_diskCache, nmCache, m_memoryCache,
                   m_prefetchUrls, m_downloadRequests, last, lru, history, locks>>

\* findTileInMemoryCache: QReadLocker locker(&m_tileCacheLock).
FindLock(t) ==
    /\ At(t, "find_lock")
    /\ locks.writer = 0
    /\ locks' = [locks EXCEPT !.readers = @ \cup {t}]
    /\ threads' = Goto(t, "find")
    /\ UNCHANGED <<m_cachePolicy, m_tileProvider, m_diskCache, nmCache, m_memoryCache,
                   m_prefetchUrls, m_downloadRequests, last, lru, history>>

\* findTileInMemoryCache: the lookup, and the read lock released on return.
\* A hit ends getImage and prefetchImage; on a miss prefetchImage notes the
\* url and both go on to getImageInternal.
Find(t) ==
    LET f == findTileInMemoryCache(m_memoryCache, threads[t].url) IN
    /\ At(t, "find")
    /\ m_memoryCache' = f.cache
    /\ locks' = [locks EXCEPT !.readers = @ \ {t}]
    /\ threads' = IF f.found THEN Return(t) ELSE Goto(t, "provider_lock")
    /\ m_prefetchUrls' = IF ~f.found /\ threads[t].op = "prefetchImage"
                         THEN m_prefetchUrls \cup {threads[t].url}
                         ELSE m_prefetchUrls
    /\ UNCHANGED <<m_cachePolicy, m_tileProvider, m_diskCache, nmCache,
                   m_downloadRequests, last, lru, history>>

\* getImageInternal, rawImageFromDiskCache: QMutexLocker locked(&m_tileProviderLock).
ProviderLock(t) ==
    /\ At(t, "provider_lock")
    /\ locks.provider = 0
    /\ locks' = [locks EXCEPT !.provider = t]
    /\ threads' = Goto(t, "provider_held")
    /\ UNCHANGED <<m_cachePolicy, m_tileProvider, m_diskCache, nmCache, m_memoryCache,
                   m_prefetchUrls, m_downloadRequests, last, lru, history>>

\* if (m_tileProvider): with a provider bound getTileData is called; with
\* none the block ends, which releases the lock.
ProviderCheck(t) ==
    /\ At(t, "provider_held")
    /\ IF m_tileProvider
       THEN /\ threads' = Goto(t, "getTileData")
            /\ UNCHANGED locks
       ELSE /\ threads' = Goto(t, "no_provider")
            /\ locks' = [locks EXCEPT !.provider = 0]
    /\ UNCHANGED <<m_cachePolicy, m_tileProvider, m_diskCache, nmCache, m_memoryCache,
                   m_prefetchUrls, m_downloadRequests, last, lru, history>>

\* m_tileProvider->getTileData returns. getImageInternal goes on to
\* getImageFromDevice with the lock held, or returns the empty pixmap;
\* rawImageFromDiskCache returns the bytes.
GetTileData(t) ==
    \E reply \in ProviderReplies :
        /\ At(t, "getTileData")
        /\ IF threads[t].op = "cacheImageToDisk"
           THEN /\ threads' = [threads EXCEPT ![t].pc = "raw", ![t].data = reply.data]
                /\ locks' = [locks EXCEPT !.provider = 0]
           ELSE IF reply.found
                THEN /\ threads' = [threads EXCEPT ![t].pc = "insert_lock",
                                                   ![t].data = reply.data]
                     /\ UNCHANGED locks
                ELSE /\ threads' = Return(t)
                     /\ locks' = [locks EXCEPT !.provider = 0]
        /\ UNCHANGED <<m_cachePolicy, m_tileProvider, m_diskCache, nmCache,
                       m_memoryCache, m_prefetchUrls, m_downloadRequests, last, lru,
                       history>>

\* insertTileToMemoryCache: QWriteLocker locker(&m_tileCacheLock).
InsertLock(t) ==
    /\ At(t, "insert_lock")
    /\ locks.writer = 0 /\ locks.readers = {}
    /\ locks' = [locks EXCEPT !.writer = t]
    /\ threads' = Goto(t, "insert")
    /\ UNCHANGED <<m_cachePolicy, m_tileProvider, m_diskCache, nmCache, m_memoryCache,
                   m_prefetchUrls, m_downloadRequests, last, lru, history>>

\* getImageFromDevice from the insertion on: the pixmap is inserted, the write
\* lock released, the url dropped from the prefetch set; getImageInternal
\* returns, which releases the provider lock.
Insert(t) ==
    /\ At(t, "insert")
    /\ m_memoryCache' = insertTileToMemoryCache(m_memoryCache, threads[t].url,
                                                fromImageReader(threads[t].data))
    /\ m_prefetchUrls' = m_prefetchUrls \ {threads[t].url}
    /\ locks' = [locks EXCEPT !.writer = 0, !.provider = 0]
    /\ threads' = Return(t)
    /\ UNCHANGED <<m_cachePolicy, m_tileProvider, m_diskCache, nmCache,
                   m_downloadRequests, last, lru, history>>

\* No provider is bound. getImageInternal goes by the policy (no persistent
\* cache is configured here): it returns the empty pixmap or emits
\* downloadImage(url, false). rawImageFromDiskCache returns no bytes.
NoProvider(t) ==
    /\ At(t, "no_provider")
    /\ ~m_diskCache
    /\ threads' =
         IF threads[t].op = "cacheImageToDisk"
         THEN [threads EXCEPT ![t].pc = "raw", ![t].data = EmptyBytes]
         ELSE IF getImageInternalNoProvider(m_memoryCache, m_prefetchUrls,
                     m_cachePolicy, m_diskCache, threads[t].url, NoDiskEntry).dl = <<>>
              THEN Return(t)
              ELSE Goto(t, "download_lock")
    /\ UNCHANGED <<m_cachePolicy, m_tileProvider, m_diskCache, nmCache, m_memoryCache,
                   m_prefetchUrls, m_downloadRequests, last, lru, history, locks>>

\* cacheImageToDisk with the bytes of rawImageFromDiskCache: true, or
\* emit downloadImage(url, true).
Raw(t) ==
    /\ At(t, "raw")
    /\ threads' =
         IF \/ m_cachePolicy \in {"AlwaysCache", "PreferCache"}
                  /\ ByteSize(threads[t].data) > 0
            \/ m_cachePolicy = "AlwaysCache"
         THEN Return(t)
         ELSE Goto(t, "download_lock")
    /\ UNCHANGED <<m_cachePolicy, m_tileProvider, m_diskCache, nmCache, m_memoryCache,
                   m_prefetchUrls, m_downloadRequests, last, lru, history, locks>>

\* NetworkManager::downloadImage (the slot runs in the emitting thread): the
\* mutex of the download table is taken.
DownloadLock(t) ==
    /\ At(t, "download_lock")
    /\ locks.table = 0
    /\ locks' = [locks EXCEPT !.table = t]
    /\ threads' = Goto(t, "downloadImage")
    /\ UNCHANGED <<m_cachePolicy, m_tileProvider, m_diskCache, nmCache, m_memoryCache,
                   m_prefetchUrls, m_downloadRequests, last, lru, history>>

\* NetworkManager::downloadImage: the request is started, the mutex released.
DownloadImage(t) ==
    /\ At(t, "downloadImage")
    /\ m_downloadRequests' =
          downloadImage(m_downloadRequests, threads[t].url, threads[t].arg)
    /\ locks' = [locks EXCEPT !.table = 0]
    /\ threads' = Return(t)
    /\ UNCHANGED <<m_cachePolicy, m_tileProvider, m_diskCache, nmCache, m_memoryCache,
                   m_prefetchUrls, last, lru, history>>
\* A thread calls setCustomTileProvider(provider).
StartSetCustomTileProvider(t, provider) ==
    /\ At(t, "idle")
    /\ threads' = [threads EXCEPT ![t] =
          [IdleThread EXCEPT !.op = "setCustomTileProvider", !.arg = provider,
                             !.pc = "swap_lock"]]
    /\ UNCHANGED <<m_cachePolicy, m_tileProvider, m_diskCache, nmCache, m_memoryCache,
                   m_prefetchUrls, m_downloadRequests, last, lru, history, locks>>

\* Faulty variant of SwapLock: setCustomTileProvider goes on without the lock.
SwapLock_NoLock(t) ==
    /\ At(t, "swap_lock")
    /\ threads' = Goto(t, "abort_lock")
    /\ UNCHANGED <<m_cachePolicy, m_tileProvider, m_diskCache, nmCache, m_memoryCache,
                   m_prefetchUrls, m_downloadRequests, last, lru, history, locks>>

\* setCustomTileProvider: QMutexLocker tileProviderLock(&m_tileProviderLock).
SwapLock(t) ==
    /\ At(t, "swap_lock")
    /\ locks.provider = 0
    /\ locks' = [locks EXCEPT !.provider = t]
    /\ threads' = Goto(t, "abort_lock")
    /\ UNCHANGED <<m_cachePolicy, m_tileProvider, m_diskCache, nmCache, m_memoryCache,
                   m_prefetchUrls, m_downloadRequests, last, lru, history>>

\* abortLoading -> NetworkManager::abortDownloads: the mutex of the download
\* table is taken, with the provider lock held.
AbortLock(t) ==
    /\ At(t, "abort_lock")
    /\ locks.table = 0
    /\ locks' = [locks EXCEPT !.table = t]
    /\ threads' = Goto(t, "abortLoading")
    /\ UNCHANGED <<m_cachePolicy, m_tileProvider, m_diskCache, nmCache, m_memoryCache,
                   m_prefetchUrls, m_downloadRequests, last, lru, history>>

\* abortLoading: the downloads are aborted, the mutex released, the prefetch
\* set cleared.
AbortLoadingStep(t) ==
    LET a == abortLoading(m_downloadRequests, m_prefetchUrls) IN
    /\ At(t, "abortLoading")
    /\ m_downloadRequests' = a.requests
    /\ m_prefetchUrls' = a.prefetch
    /\ locks' = [locks EXCEPT !.table = 0]
    /\ threads' = Goto(t, "set_provider")
    /\ UNCHANGED <<m_cachePolicy, m_tileProvider, m_diskCache, nmCache, m_memoryCache,
                   last, lru, history>>

\* m_tileProvider = provider; setCustomTileProvider returns, which releases
\* the provider lock (if this thread holds it).
SetProvider(t) ==
    /\ At(t, "set_provider")
    /\ m_tileProvider' = threads[t].arg
    /\ locks' = [locks EXCEPT !.provider = IF @ = t THEN 0 ELSE @]
    /\ threads' = Return(t)
    /\ UNCHANGED <<m_cachePolicy, m_diskCache, nmCache, m_memoryCache,
                   m_prefetchUrls, m_downloadRequests, last, lru, history>>

\* setCachePolicy run in one piece while no thread holds the download mutex.
SetCachePolicyBetween(policy) ==
    /\ locks.table = 0
    /\ SetCachePolicy(policy)
\* ------------------------------------------------------- specifications
\* The tile operations of the interface.
ApiCalls == {"getImage", "prefetchImage", "cacheImageToDisk"}

Next ==
    \/ \E u \in URLs : GetImage(u)
    \/ \E u \in URLs : PrefetchImage(u)
    \/ \E u \in URLs : CacheImageToDisk(u)
    \/ AbortLoading
    \/ \E policy \in Policies : SetCachePolicy(policy)
    \/ \E provider \in BOOLEAN : SetCustomTileProvider(provider)
    \/ \E success \in BOOLEAN : ConfigureDiskCache(success)
    \/ \E capacityMiB \in 0..MaxCapacityMiB : SetMemoryCacheCapacity(capacityMiB)
    \/ \E i \in 1..Len(m_downloadRequests), pixmap \in TilePixmaps \cup {NullPixmap} :
          DownloadSucceeded(i, pixmap)
    \/ \E i \in 1..Len(m_downloadRequests) : DownloadFailed(i)

Spec == Init /\ [][Next]_vars

\* The downloads with the clock and the timeout sweep.
NextTimeout ==
    \/ \E u \in URLs : GetImage(u)
    \/ \E u \in URLs : PrefetchImage(u)
    \/ \E u \in URLs : CacheImageToDisk(u)
    \/ \E policy \in Policies : SetCachePolicy(policy)
    \/ \E i \in 1..Len(m_downloadRequests), pixmap \in TilePixmaps \cup {NullPixmap} :
          DownloadSucceeded(i, pixmap)
    \/ \E i \in 1..Len(m_downloadRequests) : DownloadFailed(i)
    \/ Tick
    \/ AbortTimeoutedRequests

SpecTimeout == Init /\ [][NextTimeout]_vars

\* The memory cache filled by downloads of three urls, the order of use recorded.
NextLru ==
    \/ \E u \in LruURLs : GetImage(u)
    \/ \E u \in LruURLs : PrefetchImage(u)
    \/ \E policy \in Policies : SetCachePolicy(policy)
    \/ \E capacityMiB \in 0..MaxCapacityMiB : SetMemoryCacheCapacity(capacityMiB)
    \/ \E i \in 1..Len(m_downloadRequests), pixmap \in TilePixmaps \cup {NullPixmap} :
          DownloadSucceeded(i, pixmap)
    \/ \E i \in 1..Len(m_downloadRequests) : DownloadFailed(i)

SpecLru == InitLru /\ [][NextLru]_vars

\* The downloads with the requests recording who asked for them.
NextHistory ==
    \/ \E u \in URLs : GetImage(u)
    \/ \E u \in URLs : PrefetchImage(u)
    \/ AbortLoading
    \/ \E policy \in Policies : SetCachePolicy(policy)
    \/ \E i \in 1..Len(m_downloadRequests), pixmap \in TilePixmaps \cup {NullPixmap} :
          DownloadSucceeded(i, pixmap)
    \/ \E i \in 1..Len(m_downloadRequests) : DownloadFailed(i)


SpecHistory == InitHistory /\ [][NextHistory]_vars

\* The downloads with a slot connected to imageUpdated that calls getImage.
NextSlot ==
    \/ \E u \in URLs : GetImage(u)
    \/ \E u \in URLs : PrefetchImage(u)
    \/ \E policy \in Policies : SetCachePolicy(policy)
    \/ \E success \in BOOLEAN : ConfigureDiskCache(success)
    \/ \E i \in 1..Len(m_downloadRequests), pixmap \in TilePixmaps \cup {NullPixmap} :
          DownloadSucceeded(i, pixmap)
    \/ \E i \in 1..Len(m_downloadRequests), pixmap \in TilePixmaps \cup {NullPixmap} :
          ImageUpdatedSlot(i, pixmap)
    \/ \E i \in 1..Len(m_downloadRequests) : DownloadFailed(i)

SpecSlot == Init /\ [][NextSlot]_vars

\* The url the threads ask for.
LockURLs == {"A"}

\* Threads calling the tile operations and setCustomTileProvider at once.
NextLocks ==
    \/ \E t \in Threads, op \in ApiCalls, u \in LockURLs : StartTileOp(t, op, u)
    \/ \E t \in Threads, provider \in BOOLEAN : StartSetCustomTileProvider(t, provider)
    \/ \E t \in Threads : FindLock(t)
    \/ \E t \in Threads : Find(t)
    \/ \E t \in Threads : ProviderLock(t)
    \/ \E t \in Threads : ProviderCheck(t)
    \/ \E t \in Threads : GetTileData(t)
    \/ \E t \in Threads : InsertLock(t)
    \/ \E t \in Threads : Insert(t)
    \/ \E t \in Threads : NoProvider(t)
    \/ \E t \in Threads : Raw(t)
    \/ \E t \in Threads : DownloadLock(t)
    \/ \E t \in Threads : DownloadImage(t)
    \/ \E t \in Threads : SwapLock(t)
    \/ \E t \in Threads : AbortLock(t)
    \/ \E t \in Threads : AbortLoadingStep(t)
    \/ \E t \in Threads : SetProvider(t)
    \/ \E policy \in Policies : SetCachePolicyBetween(policy)

SpecLocks == Init /\ [][NextLocks]_vars

\* The transport answers the request outstanding for url: it succeeds or fails.
Answer(url) ==
    \E i \in 1..Len(m_downloadRequests) :
       /\ m_downloadRequests[i].url = url
       /\ \/ \E pixmap \in TilePixmaps \cup {NullPixmap} : DownloadSucceeded(i, pixmap)
          \/ DownloadFailed(i)

\* The tile operations, the aborts and the answers of the transport.
NextRedraw ==
    \/ \E u \in URLs : GetImage(u)
    \/ \E u \in URLs : PrefetchImage(u)
    \/ \E u \in URLs : CacheImageToDisk(u)
    \/ AbortLoading
    \/ \E policy \in Policies : SetCachePolicy(policy)
    \/ \E provider \in BOOLEAN : SetCustomTileProvider(provider)
    \/ \E u \in URLs : Answer(u)

\* The transport eventually answers every request that stays outstanding.
SpecRedraw ==
    Init /\ [][NextRedraw]_vars /\ \A u \in URLs : WF_vars(Answer(u))

\* ---------------------------------------------------------- the properties
OutstandingFor(url) == {i \in 1..Len(m_downloadRequests) : m_downloadRequests[i].url = url}

\* The image the memory cache holds for url.
CachedImage(cache, url) == cache.list[QCacheIndex(cache, hashTileUrl(url))].obj

\* The operation recorded in last asked for no download and started none.
NoDownload == last.dl = <<>> /\ Len(m_downloadRequests) = last.queue

\* C1: in every reachable state at most one request is outstanding per URL,
\* and a getImage, prefetchImage or cacheImageToDisk call for a URL that had a
\* request outstanding started no transport operation: the outstanding count
\* is what it was before the call.
C1_Dedup ==
    /\ \A u \in URLs : Cardinality(OutstandingFor(u)) <= 1
    /\ (last.op \in ApiCalls /\ last.outstanding) =>
          Len(m_downloadRequests) = last.queue

\* C1 witness: cacheImageToDisk asked for a download of a URL that a request
\* was already outstanding for.
C1_Witness ==
    /\ last.op = "cacheImageToDisk" /\ last.outstanding /\ last.dl # <<>>
    /\ Len(m_downloadRequests) = 2

\* C2: a getImage call for a key the memory cache holds returns the image the
\* cache held for it and makes no provider call, no persistent-cache read and
\* no download request, whatever the policy and the provider binding.
C2_MemoryFastPath ==
    [][(last'.op = "getImage" /\ last'.cached) =>
          /\ last'.ret = CachedImage(m_memoryCache, last'.url)
          /\ last'.prov = 0 /\ last'.disk = 0 /\ last'.dl = <<>>
          /\ Len(m_downloadRequests') = Len(m_downloadRequests)]_vars

\* C2 witness: a memory hit of getImage with a provider bound, a persistent
\* cache configured and a policy that allows downloads.
C2_Witness ==
    /\ last.op = "getImage" /\ last.cached /\ last.ret \in TilePixmaps
    /\ m_tileProvider /\ m_diskCache /\ m_cachePolicy = "AlwaysNetwork"

\* C3: under AlwaysCache, getImage and prefetchImage on a key the memory cache
\* does not hold ask for no download; and getImage returns the empty-tile
\* placeholder when no provider is bound and the persistent cache has no entry.
C3_AlwaysCache ==
    (last.op \in {"getImage", "prefetchImage"} /\ ~last.cached
        /\ m_cachePolicy = "AlwaysCache") =>
       /\ NoDownload
       /\ (last.op = "getImage" /\ ~m_tileProvider /\ ~last.diskReply.entry) =>
             last.ret = m_pixmapEmpty

\* C3 witness: getImage missed the memory cache under AlwaysCache with no
\* provider, read the persistent cache and found no entry.
C3_Witness ==
    /\ last.op = "getImage" /\ ~last.cached /\ m_cachePolicy = "AlwaysCache"
    /\ ~m_tileProvider /\ m_diskCache /\ last.disk = 1 /\ ~last.diskReply.entry
    /\ last.ret = m_pixmapEmpty

\* C7: when the bound provider reports no data for a key the memory cache does
\* not hold, getImage returns the empty-tile placeholder, asks for no download
\* and does not read the persistent cache, under every policy.
C7_ProviderNotFound ==
    (last.op = "getImage" /\ ~last.cached /\ m_tileProvider /\ ~last.provReply.found) =>
       /\ last.ret = m_pixmapEmpty
       /\ NoDownload
       /\ last.disk = 0

\* C7 witness: the provider was asked and had no data, under AlwaysNetwork
\* with a persistent cache configured.
C7_Witness ==
    /\ last.op = "getImage" /\ ~last.cached /\ m_tileProvider
    /\ last.prov = 1 /\ ~last.provReply.found
    /\ m_cachePolicy = "AlwaysNetwork" /\ m_diskCache

HasSignal(sigs, name, url) == \E i \in 1..Len(sigs) : sigs[i] = Signal(name, url)

CountSignal(sigs, name, url) ==
    Cardinality({i \in 1..Len(sigs) : sigs[i] = Signal(name, url)})

\* No success notification (imageUpdated, imageCached) is among sigs.
NoSuccess(sigs) ==
    \A i \in 1..Len(sigs) : sigs[i].name \notin {"imageUpdated", "imageCached"}

\* C4: the successful completion of a display download that only prefetchImage
\* asked for emits no imageUpdated for its URL, and the successful completion
\* of a download that a getImage miss asked for emits imageUpdated for it.
C4_PrefetchNotification ==
    (last.op = "downloadFinished" /\ last.outcome = "ok" /\ ~last.req.cacheOnly) =>
       /\ (last.req.askers = {"prefetchImage"}) =>
             ~HasSignal(last.sigs, "imageUpdated", last.url)
       /\ ("getImage" \in last.req.askers) =>
             HasSignal(last.sigs, "imageUpdated", last.url)

\* The cost of an image as the properties count it: width x height x depth / 8.
ClaimedCost(pixmap) == (pixmap.w * pixmap.h * pixmap.depth) \div 8

RECURSIVE ClaimedUsage(_)
ClaimedUsage(list) ==
    IF list = <<>> THEN 0 ELSE ClaimedCost(Head(list).obj) + ClaimedUsage(Tail(list))

C8_Case ==
    /\ last.op = "getImage" /\ ~last.cached /\ m_cachePolicy = "PreferCache"
    /\ ~m_tileProvider /\ m_diskCache
    /\ last.diskReply.entry /\ last.diskReply.data.fmt = "img"

\* C8, as claimed: in that case getImage returns the decoded image, asks for no
\* download, and the memory cache holds the key afterwards.
C8_Original ==
    C8_Case =>
       /\ last.ret = last.diskReply.data.img
       /\ NoDownload
       /\ QCacheContains(m_memoryCache, hashTileUrl(last.url))

\* C8, amended: in that case getImage returns the decoded image and asks for
\* no download; the memory cache holds the key (with that image) afterwards
\* if the image's cost is at most the cache's capacity, and not otherwise.
C8_DiskHit ==
    C8_Case =>
       /\ last.ret = last.diskReply.data.img
       /\ NoDownload
       /\ IF ClaimedCost(last.ret) <= m_memoryCache.mx
          THEN /\ QCacheContains(m_memoryCache, hashTileUrl(last.url))
               /\ CachedImage(m_memoryCache, last.url) = last.ret
          ELSE ~QCacheContains(m_memoryCache, hashTileUrl(last.url))

\* C8 witness: the case, with the image in the memory cache afterwards.
C8_Witness ==
    /\ C8_Case
    /\ QCacheContains(m_memoryCache, hashTileUrl(last.url))
    /\ m_memoryCache.mx = MiB

CachedUrls(cache) == {u \in LruURLs : QCacheContains(cache, hashTileUrl(u))}

\* The place of url in order, most recently used first.
Place(order, url) == CHOOSE i \in 1..Len(order) : order[i] = url

\* In a step of an operation that inserts last'.url in the memory cache, every
\* url that leaves the cache was used, by order, less recently than every url
\* that stays.
EvictsLeastRecent(order) ==
    LET before == CachedUrls(m_memoryCache) \ {last'.url}
        after == CachedUrls(m_memoryCache')
    IN  (last'.op \in {"downloadFinished", "getImage"}) =>
           \A e \in before \ after, s \in before \cap after :
              Place(order, s) < Place(order, e)

\* With 1 MiB of capacity and two 400 KiB images cached, a before b by order,
\* the arrival of a third 400 KiB image leaves exactly b and the third cached.
EvictsFirstOfThree(order) ==
    \A a, b, c \in LruURLs :
       (/\ Cardinality({a, b, c}) = 3
        /\ m_memoryCache.mx = MiB
        /\ CachedUrls(m_memoryCache) = {a, b}
        /\ \A i \in 1..2 : m_memoryCache.list[i].obj = P400
        /\ order = <<b, a>>
        /\ last'.op = "downloadFinished" /\ last'.outcome = "ok"
        /\ last'.url = c /\ last'.ret = P400 /\ ~last'.req.cacheOnly)
       => CachedUrls(m_memoryCache') = {b, c}

\* C10, as claimed: an insertion over capacity evicts the images least recently
\* inserted or read by getImage.
C10_Original ==
    [][EvictsLeastRecent(lru.gi) /\ EvictsFirstOfThree(lru.gi)]_vars

\* C10, amended: an insertion over capacity evicts the images least recently
\* inserted or looked up in the memory cache, by getImage or by prefetchImage.
C10_Lru ==
    [][EvictsLeastRecent(lru.all) /\ EvictsFirstOfThree(lru.all)]_vars

\* C10 witness: at 1 MiB, with A then B cached at 400 KiB each, the download of
\* C at 400 KiB evicted A and left B and C.
C10_Witness ==
    /\ last.op = "downloadFinished" /\ last.url = "C" /\ last.ret = P400
    /\ m_memoryCache.mx = MiB
    /\ lru.out = {"A"}
    /\ lru.all = <<"C", "B">>
    /\ CachedUrls(m_memoryCache) = {"B", "C"}

\* The raw payload available for the url of the cacheImageToDisk call recorded
\* in rec: what the provider, if one is bound, or else the persistent cache
\* answered.
RawPayload(rec) ==
    IF m_tileProvider THEN rec.provReply.data
    ELSE IF m_diskCache /\ rec.diskReply.entry THEN rec.diskReply.data
    ELSE EmptyBytes

\* C11: cacheImageToDisk(K) under AlwaysCache returns true and asks for no
\* download; under AlwaysCache or PreferCache with a non-empty raw payload
\* available it returns true, emits imageCached and asks for no download; in
\* every other case it asks for exactly one cache-only download of K (which
\* starts a transport operation unless one is outstanding for K) and returns
\* false; it never changes the memory cache.
C11_CacheImageToDisk ==
    [][last'.op = "cacheImageToDisk" =>
          LET cacheFirst == m_cachePolicy \in {"AlwaysCache", "PreferCache"}
              payload == cacheFirst /\ ByteSize(RawPayload(last')) > 0
              quiet == /\ last'.dl = <<>>
                       /\ m_downloadRequests' = m_downloadRequests
          IN
          /\ m_memoryCache' = m_memoryCache
          /\ (m_cachePolicy = "AlwaysCache") => (last'.result /\ quiet)
          /\ payload =>
                (last'.result /\ quiet /\ \E i \in 1..Len(last'.sigs) :
                                             last'.sigs[i].name = "imageCached")
          /\ (m_cachePolicy # "AlwaysCache" /\ ~payload) =>
                /\ ~last'.result
                /\ last'.dl = <<DownloadSignal(last'.url, TRUE)>>
                /\ IF last'.outstanding
                   THEN Len(m_downloadRequests') = Len(m_downloadRequests)
                   ELSE /\ Len(m_downloadRequests') = Len(m_downloadRequests) + 1
                        /\ m_downloadRequests'[Len(m_downloadRequests')].url = last'.url
                        /\ m_downloadRequests'[Len(m_downloadRequests')].cacheOnly]_vars

\* C11 witness: under PreferCache, with the persistent cache holding bytes for
\* the url, cacheImageToDisk returned true and emitted imageCached while
\* another url was being downloaded and the memory cache held an image.
C11_Witness ==
    /\ last.op = "cacheImageToDisk" /\ m_cachePolicy = "PreferCache"
    /\ ~m_tileProvider /\ last.disk = 1 /\ last.diskReply.entry
    /\ last.result /\ last.sigs = <<Signal("imageCached", "")>> /\ last.dl = <<>>
    /\ Len(m_downloadRequests) = 1 /\ m_memoryCache.list # <<>>

\* C12: abortLoading, setCustomTileProvider and setCachePolicy(AlwaysCache)
\* leave no request outstanding and the prefetch set empty, whatever was
\* outstanding before; setCachePolicy(PreferCache) and
\* setCachePolicy(AlwaysNetwork) cancel nothing and leave the outstanding
\* requests as they were.
C12_AbortAll ==
    [][/\ (\/ last'.op \in {"abortLoading", "setCustomTileProvider"}
           \/ (last'.op = "setCachePolicy" /\ m_cachePolicy' = "AlwaysCache")) =>
             /\ downloadQueueSize(m_downloadRequests') = 0
             /\ m_prefetchUrls' = {}
             /\ last'.cancelled = Len(m_downloadRequests)
       /\ (last'.op = "setCachePolicy" /\ m_cachePolicy' # "AlwaysCache") =>
             /\ last'.cancelled = 0
             /\ m_downloadRequests' = m_downloadRequests]_vars

\* C12 witness: setCachePolicy(AlwaysCache) cancelled two outstanding requests.
C12_Witness ==
    /\ last.op = "setCachePolicy" /\ m_cachePolicy = "AlwaysCache"
    /\ last.queue = 2 /\ last.cancelled = 2
    /\ m_downloadRequests = <<>> /\ m_prefetchUrls = {}

\* C13: while a tile provider is bound, none of getImage, prefetchImage and
\* cacheImageToDisk asks for a download or reads the persistent cache, under
\* any policy and whatever the provider answers.
C13_ProviderExclusive ==
    (last.op \in ApiCalls /\ m_tileProvider) => (NoDownload /\ last.disk = 0)

\* C14: under AlwaysNetwork with no provider bound, a getImage(K) that misses
\* the memory cache does not read the persistent cache, asks for one display
\* download of K and returns the loading placeholder.
C14_AlwaysNetwork ==
    (/\ last.op = "getImage" /\ ~last.cached
     /\ m_cachePolicy = "AlwaysNetwork" /\ ~m_tileProvider) =>
       /\ last.disk = 0
       /\ last.dl = <<DownloadSignal(last.url, FALSE)>>
       /\ last.ret = m_pixmapLoading
       /\ OutstandingFor(last.url) # {}
       /\ ~last.outstanding =>
             /\ Len(m_downloadRequests) = last.queue + 1
             /\ ~m_downloadRequests[Len(m_downloadRequests)].cacheOnly

\* C14 witness: such a getImage, with a persistent cache configured, started
\* a display download.
C14_Witness ==
    /\ last.op = "getImage" /\ ~last.cached
    /\ m_cachePolicy = "AlwaysNetwork" /\ ~m_tileProvider /\ m_diskCache
    /\ ~last.outstanding /\ last.ret = m_pixmapLoading
    /\ Len(m_downloadRequests) = last.queue + 1

\* C15: when a download for U fails, imageDownloadFailed(U) is emitted, the
\* memory cache stays as it was, no request is started in its place and U is
\* no longer outstanding; a getImage(U) that comes next runs the miss path
\* again: under PreferCache or AlwaysNetwork, with no provider and no hit in
\* the persistent cache, it asks for a download of U, which starts a request.
C15_DownloadFailure ==
    [][/\ (last'.op = "downloadFinished" /\ last'.outcome = "error") =>
             /\ last'.sigs = <<Signal("imageDownloadFailed", last'.url)>>
             /\ m_memoryCache' = m_memoryCache
             /\ Len(m_downloadRequests') = Len(m_downloadRequests) - 1
             /\ \A i \in 1..Len(m_downloadRequests') :
                   m_downloadRequests'[i].url # last'.url
       /\ (/\ last.op = "downloadFinished" /\ last.outcome = "error"
           /\ last'.op = "getImage" /\ last'.url = last.url /\ ~last'.cached
           /\ m_cachePolicy \in {"PreferCache", "AlwaysNetwork"} /\ ~m_tileProvider
           /\ ~last'.diskReply.entry) =>
             /\ last'.dl = <<DownloadSignal(last'.url, FALSE)>>
             /\ last'.ret = m_pixmapLoading
             /\ Len(m_downloadRequests') = Len(m_downloadRequests) + 1
             /\ m_downloadRequests'[Len(m_downloadRequests')].url = last'.url]_vars

\* C15 witness: a download failed while the memory cache held an image and
\* another request was outstanding.
C15_Witness ==
    /\ last.op = "downloadFinished" /\ last.outcome = "error"
    /\ last.sigs = <<Signal("imageDownloadFailed", last.url)>>
    /\ m_memoryCache.list # <<>> /\ Len(m_downloadRequests) = 1
    /\ m_cachePolicy = "PreferCache"

\* C16: in every reachable state the network manager has the persistent cache
\* attached exactly when a persistent cache is configured and the policy is
\* not AlwaysNetwork.
C16_CacheWiring ==
    nmCache = (m_diskCache /\ m_cachePolicy # "AlwaysNetwork")

\* The bytes the getImage recorded in last obtained for its url, from the
\* provider or from the persistent cache, do not decode.
UndecodableBytes ==
    \/ last.prov = 1 /\ last.provReply.found /\ last.provReply.data.fmt = "junk"
    \/ last.disk = 1 /\ last.diskReply.entry /\ last.diskReply.data.fmt = "junk"

\* C17: when the bytes obtained for K from the provider or from the
\* persistent cache cannot be decoded, getImage(K) returns the empty
\* placeholder and the memory cache holds nothing for K.
C17_DecodeFailure ==
    (last.op = "getImage" /\ ~last.cached /\ UndecodableBytes) =>
       /\ last.ret = m_pixmapEmpty
       /\ ~QCacheContains(m_memoryCache, hashTileUrl(last.url))

\* C18: in every reachable state every image the memory cache holds is
\* non-null, and so is the image a getImage hit returns (the assertion in
\* getImage holds).
C18_NoNullImages ==
    /\ \A i \in 1..Len(m_memoryCache.list) : ~isNull(m_memoryCache.list[i].obj)
    /\ (last.op = "getImage" /\ last.cached) => ~isNull(last.ret)

\* C18 witness: a display download delivered a null image while the memory
\* cache held another url's image; nothing was inserted for its url.
C18_Witness ==
    /\ last.op = "downloadFinished" /\ last.outcome = "ok" /\ ~last.req.cacheOnly
    /\ last.ret = NullPixmap
    /\ m_memoryCache.list # <<>>
    /\ ~QCacheContains(m_memoryCache, hashTileUrl(last.url))

\* C20: when imageUpdated(U) is delivered for a successful display download
\* whose image the memory cache keeps, U is already in the memory cache: a
\* getImage(U) made by the slot is a memory hit that makes no provider call,
\* no persistent-cache read and asks for no download.
C20_InsertBeforeNotify ==
    (last.op = "imageUpdated" /\ QCacheContains(m_memoryCache, hashTileUrl(last.url))) =>
       /\ last.cached
       /\ last.dl = <<>> /\ last.prov = 0 /\ last.disk = 0
       /\ last.ret \notin {m_pixmapLoading, m_pixmapEmpty}

\* The threads that keep t from the lock it is waiting for.
Blockers(t) ==
    CASE threads[t].pc \in {"provider_lock", "swap_lock"} -> {locks.provider} \ {0}
      [] threads[t].pc \in {"download_lock", "abort_lock"} -> {locks.table} \ {0}
      [] threads[t].pc = "find_lock" -> {locks.writer} \ {0}
      [] threads[t].pc = "insert_lock" -> ({locks.writer} \ {0}) \cup locks.readers
      [] OTHER -> {}

\* Some threads wait for locks that only threads among them hold.
Deadlocked ==
    \E S \in SUBSET Threads \ {{}} :
       \A t \in S : Blockers(t) # {} /\ Blockers(t) \subseteq S

\* A thread is inside setCustomTileProvider, past the point where it takes
\* the provider lock.
Swapping(t) == threads[t].pc \in {"abort_lock", "abortLoading", "set_provider"}

\* C19: no call of the provider's getTileData made by getImage, prefetchImage
\* or cacheImageToDisk overlaps an execution of setCustomTileProvider (so the
\* provider stays bound during the call), and the threads never deadlock on
\* the provider lock, the memory-cache lock and the download mutex.
C19_ProviderSwap ==
    /\ \A t, s \in Threads : ~(At(t, "getTileData") /\ Swapping(s))
    /\ \A t \in Threads : At(t, "getTileData") => (m_tileProvider /\ locks.provider = t)
    /\ ~Deadlocked

\* C19 witness: one thread is in getTileData while the other, in
\* setCustomTileProvider, waits for the provider lock.
C19_Witness ==
    \E t, s \in Threads :
       /\ At(t, "getTileData") /\ At(s, "swap_lock")
       /\ locks.provider = t /\ Blockers(s) = {t}

\* C21: in every reachable state every url of the prefetch set has a request
\* outstanding; in particular a prefetchImage call that starts no download
\* leaves its url out of the set.
C21_PrefetchSetNoLeak ==
    /\ \A u \in m_prefetchUrls : OutstandingFor(u) # {}
    /\ (last.op = "prefetchImage" /\ last.dl = <<>> /\ ~last.outstanding) =>
          last.url \notin m_prefetchUrls

\* The last operation was a getImage(url) that returned the loading placeholder.
ReturnedLoading(url) ==
    last.op = "getImage" /\ last.url = url /\ last.ret = m_pixmapLoading

\* The last operation emitted imageUpdated(url) or imageDownloadFailed(url).
Notified(url) ==
    \/ HasSignal(last.sigs, "imageUpdated", url)
    \/ HasSignal(last.sigs, "imageDownloadFailed", url)

\* The last operation was abortLoading, a provider swap or a switch to AlwaysCache.
AbortedAll ==
    \/ last.op \in {"abortLoading", "setCustomTileProvider"}
    \/ last.op = "setCachePolicy" /\ m_cachePolicy = "AlwaysCache"

\* C22: with a transport that eventually answers every request, once
\* getImage(U) has returned the loading placeholder, eventually
\* imageUpdated(U) or imageDownloadFailed(U) is emitted, unless abortLoading,
\* a provider swap or a switch to AlwaysCache comes first.
C22_RedrawLiveness ==
    \A u \in URLs : ReturnedLoading(u) ~> (Notified(u) \/ AbortedAll)

====
